---- MODULE Spec2Model ----
(***************************************************************************)
(* LocalRunner (codexgui-next/core/runner.py): one caller thread issuing   *)
(* execute() and cancel(), one execution thread per accepted execute(),    *)
(* two stream-reader threads per execution thread, and the agent processes *)
(* they spawn.  Threads interleave at the statements that read or write    *)
(* the runner's shared attributes (state, process, events,                 *)
(* output_callback); statements that touch only locals, or that re-read a  *)
(* value whose change would lead to the same outcome, are folded into the  *)
(* neighbouring step.                                                      *)
(*                                                                         *)
(* Orchestrator (codexgui-next/core/orchestrator.py): owns one LocalRunner *)
(* and is called from the same caller thread; its event sink              *)
(* _on_runner_event_received runs inside _emit_event, on whichever runner  *)
(* thread emits.  The two blocking calls to the planning provider          *)
(* (generate_plan on the caller thread, summarize_result on the emitting   *)
(* thread) are steps of their own.                                         *)
(***************************************************************************)
EXTENDS Integers, Sequences, FiniteSets, TLC

\* ---- bounds ----
MaxRuns == 1      \* execute() calls accepted in a behaviour of Spec, SpecCalls
MaxOverlap == 2   \* execute() calls accepted in a behaviour of SpecRuns
MaxSeq == 2       \* execute() calls accepted in a behaviour of SpecSeq
MaxTasks == 2     \* tasks started in a behaviour of SpecTasks, SpecReview, SpecWindow
MaxSolo == 1      \* tasks started in a behaviour of SpecOrch, SpecSolo
MaxClarify == 2   \* clarification questions the planning provider asks per task
MaxPlanned == 2   \* tasks started in a behaviour of SpecPlanning
MaxLines == 1     \* output lines the agent processes write, all pipes together
MaxFaults == 1    \* times the environment fails a call (Popen or readline raising)

\* ---- program values ----
NoProc == 0       \* self.process = None
Max2(a, b) == IF a > b THEN a ELSE b
Runs == 1..Max2(Max2(MaxRuns, MaxOverlap), Max2(MaxSeq, Max2(MaxTasks, MaxSolo)))
Streams == {"stdout", "stderr"}
\* statuses a process ends with by itself: 0 is success, 1 stands for every
\* other status (the one reported after a SIGTERM included)
ExitCodes == {0, 1}
\* Popen.returncode after kill(): minus the signal number
SIGKILL == 9
RunnerState == {"idle", "running", "cancelling", "completed", "failed", "cancelled"}
TerminalStates == {"completed", "failed", "cancelled"}
\* callback=None, or the orchestrator's _on_runner_event_received
CallbackInputs == {"none", "sink"}

\* ---- orchestrator values ----
OrchestratorState == {"idle", "planning", "clarifying", "reviewing", "running",
                      "summarizing", "applying", "completed", "error"}
\* what generate_plan hands back: a dict of type plan, of type clarify, of
\* neither type, the fallback dict built around unparsable text (type plan,
\* steps a list of strings), or an exception of the provider
PlanKinds == {"plan", "clarify", "other", "steps_text"}
PlanResponses == PlanKinds \cup {"raise"}
\* history[-100:]
HistoryCap == 100
NoResult == [state |-> "none", exit_code |-> -1, stdout |-> "", stderr |-> "",
             events |-> <<>>]
\* self.current_task = None
NoTask == [task_id |-> 0, user_request |-> <<>>, plan |-> "none",
           execution_result |-> NoResult, summary |-> "none"]
\* Task(...): the n-th task the caller starts; plan, execution_result and
\* summary default to None
Task(n) == [task_id |-> n, user_request |-> <<"request">>, plan |-> "none",
            execution_result |-> NoResult, summary |-> "none"]

VARIABLES
    state,            \* self.state
    process,          \* self.process: NoProc or the process object (named by its run)
    thread,           \* self.thread: 0 or the latest execution thread
    events,           \* self.events
    output_callback,  \* self.output_callback
    ex,               \* execution threads: position and locals of _execute_thread
    rd,               \* reader threads: position of each _read_stream
    procs,            \* agent processes: status, exit code, signals received
    nread,            \* lines consumed so far from each pipe
    caller,           \* position of the caller thread inside cancel()
    last,             \* the latest call of the caller and how it went
    rlog,             \* per run: every event its threads emitted, in order
    creq,             \* per run: whether cancel() passed its state check during
                      \* it, before ("live") or after ("late") its process's exit
    ostate,           \* Orchestrator.state
    current_task,     \* Orchestrator.current_task
    openai_client,    \* Orchestrator.openai_client is set
    ocall,            \* the orchestrator method the caller thread is inside
    history,          \* the stored history file
    rres,             \* per run: the execution result assembled on its events
    ocancel,          \* per run: Orchestrator.cancel() was called while it was
                      \* the runner's latest run
    rtask,            \* per run: task_id of the task execute_plan started it
                      \* for; 0 for a run started by execute() directly
    out,              \* what the step just taken did towards the outside: the
                      \* orchestrator method it entered, with its argument,
                      \* and the notifications and provider calls it issued
    pure              \* what is checked on its own: argument and result of
                      \* the planning client's and the prompt builder's
                      \* functions (SpecPlan), the calls of the history
                      \* store (SpecHistory), a call of the wrapper's
                      \* execute_prompt_streaming (SpecWrapper)

orch == <<ostate, current_task, openai_client, ocall, history, rres, ocancel, rtask, pure>>

vars == <<state, process, thread, events, output_callback, ex, rd, procs,
          nread, caller, last, rlog, creq, orch, out>>

\* ---- what a step shows to the outside ----
\* on_message(text, sender)
Msg(text, sender) ==
    [kind |-> "message", text |-> text, sender |-> sender, plan |-> "none",
     request |-> <<>>]
\* on_plan_ready(plan)
PlanReady(plan) ==
    [kind |-> "plan_ready", text |-> "", sender |-> "", plan |-> plan,
     request |-> <<>>]
\* openai_client.generate_plan(user_request, ...)
GeneratePlanCall(request) ==
    [kind |-> "generate_plan", text |-> "", sender |-> "", plan |-> "none",
     request |-> request]
\* str(e) of what _call_api raises, openai_client.py 290-291
ProviderError == "OpenAI API error: down"
\* storage.add_history_entry(entry)
HistoryCall(entry) ==
    [kind |-> "add_history_entry", text |-> "", sender |-> "", plan |-> "none",
     request |-> <<>>, entry |-> entry]
Did(call, arg, notes) == [call |-> call, arg |-> arg, notes |-> notes]
\* a step inside the runner or the process: no orchestrator method is entered
Quiet == Did("none", "", <<>>)
\* the pure functions at rest
NoPure == [pc |-> "off", response |-> "", request |-> "", plan |-> "none",
           prompt |-> ""]

\* str(exit_code) inside the f-strings of lines 154 and 161
CodeStr(c) == IF c = 0 THEN "0" ELSE IF c = 1 THEN "1" ELSE "-9"

\* RunnerEvent(type, data, timestamp); data is the f-string's fixed text and
\* its interpolated argument; run is the thread that constructed the event.
RunnerEvent(type, text, arg, r) ==
    [type |-> type, text |-> text, arg |-> arg, run |-> r]

\* event.data: the f-string with its argument filled in
Data(ev) == ev.text \o ev.arg

\* [e.data for e in events if e.type == type]
Payloads(evs, type) ==
    LET sel == SelectSeq(evs, LAMBDA e : e.type = type)
    IN  [i \in DOMAIN sel |-> Data(sel[i])]

\* '\n'.join(lines)
RECURSIVE NewlineJoin(_)
NewlineJoin(lines) ==
    IF lines = <<>> THEN ""
    ELSE IF Len(lines) = 1 THEN lines[1]
    ELSE lines[1] \o "\n" \o NewlineJoin(Tail(lines))

\* orchestrator.py 241-248: the record built from the runner's state and a
\* snapshot of its event buffer
ExecutionResult(runner_state, evs) ==
    [state |-> runner_state,
     exit_code |-> IF runner_state = "completed" THEN 0 ELSE -1,
     stdout |-> NewlineJoin(Payloads(evs, "stdout")),
     stderr |-> NewlineJoin(Payloads(evs, "stderr")),
     events |-> [i \in DOMAIN evs |-> [type |-> evs[i].type, data |-> Data(evs[i])]]]

\* orchestrator.py 228-233 and 237: the sink goes on to store a result when
\* the event is a status or error event, runner.get_state() is terminal at
\* that moment, and there is a current task
Finishes(ev) ==
    /\ output_callback = "sink"
    /\ ev.type \in {"status", "error"}
    /\ state \in TerminalStates
    /\ current_task # NoTask

\* orchestrator.py 251-253 and 260: the emitting thread goes on into
\* summarize_result, a blocking call to the provider
EntersSummarize(ev) ==
    /\ Finishes(ev)
    /\ state = "completed"
    /\ openai_client

\* orchestrator.py 235-256, up to the provider call; r is the run whose
\* thread delivers the event
_on_execution_finished(runner_state, evs, r) ==
    LET result == ExecutionResult(runner_state, evs)
    IN  /\ current_task' = [current_task EXCEPT !.execution_result = result]
        /\ rres' = [rres EXCEPT ![r] = result]
        /\ ostate' = IF runner_state = "completed" THEN "summarizing" ELSE "error"

\* _emit_event: append to the current self.events, then hand the event to the
\* current self.output_callback if there is one (its exceptions are
\* swallowed); the orchestrator's sink, orchestrator.py 222-233, runs here
_emit_event(ev) ==
    /\ events' = Append(events, ev)
    /\ rlog' = [rlog EXCEPT ![ev.run] =
                  Append(@, [ev |-> ev, cb |-> output_callback])]
    /\ IF Finishes(ev)
         THEN _on_execution_finished(state, Append(events, ev), ev.run)
         ELSE UNCHANGED <<ostate, current_task, rres>>
    /\ out' = IF output_callback # "sink" THEN Quiet
              ELSE IF Finishes(ev) /\ state # "completed"
                THEN Did("sink", ev.type, <<Msg("execution failed", "system")>>)
              ELSE Did("sink", ev.type, <<>>)

\* everything but the pure functions, after construction
Idle0 ==
    /\ state = "idle"
    /\ process = NoProc
    /\ thread = 0
    /\ events = <<>>
    /\ output_callback = "none"
    /\ ex = [r \in Runs |-> [pc |-> "none", src |-> NoProc, wait |-> NoProc, exit_code |-> 0,
                             branch |-> "none", err |-> "none",
                             runner_state |-> "none"]]
    /\ rd = [r \in Runs |-> [s \in Streams |-> "none"]]
    /\ procs = [p \in Runs |-> [status |-> "none", code |-> 0, term |-> FALSE]]
    /\ nread = [p \in Runs |-> [s \in Streams |-> 0]]
    /\ caller = "idle"
    /\ last = "ok"
    /\ rlog = [r \in Runs |-> <<>>]
    /\ creq = [r \in Runs |-> "no"]
    /\ ostate = "idle"
    /\ current_task = NoTask
    /\ openai_client = FALSE
    /\ ocall = "none"
    /\ history = <<>>
    /\ rres = [r \in Runs |-> NoResult]
    /\ ocancel = [r \in Runs |-> FALSE]
    /\ rtask = [r \in Runs |-> 0]
    /\ out = Quiet

Init ==
    /\ Idle0
    /\ pure = NoPure

\* ---- what the environment has done so far ----
ReadErrorsOf(r) ==
    Cardinality({i \in DOMAIN rlog[r] : rlog[r][i].ev.text = "Error reading "})
SpawnFaultsOf(r) ==
    IF ex[r].err = "spawn" \/ \E i \in DOMAIN rlog[r] : rlog[r][i].ev.arg = "spawn"
      THEN 1 ELSE 0
LinesUpTo[n \in 0..Cardinality(Runs)] ==
    IF n = 0 THEN 0
    ELSE nread[n]["stdout"] + nread[n]["stderr"] + LinesUpTo[n - 1]
FaultsUpTo[n \in 0..Cardinality(Runs)] ==
    IF n = 0 THEN 0
    ELSE ReadErrorsOf(n) + SpawnFaultsOf(n) + FaultsUpTo[n - 1]
TotalLines == LinesUpTo[Cardinality(Runs)]
TotalFaults == FaultsUpTo[Cardinality(Runs)]

\* ---- LocalRunner.execute (caller thread) ----
\* line 74 comparing against the wrong member of RunnerState
ExecuteRefused_WrongState == state = "cancelling"

\* line 74: the only state that refuses a new run is RUNNING
ExecuteRefused == state = "running"

\* lines 74-87, the body of execute()
execute(cb, limit) ==
    IF ExecuteRefused
      THEN /\ last' = "execute_raised"
           /\ UNCHANGED <<state, process, thread, events, output_callback,
                          ex, rd, procs, nread, caller, rlog, creq>>
      ELSE /\ thread < limit
           /\ last' = "ok"
           /\ output_callback' = cb
           /\ state' = "running"
           /\ events' = <<>>
           /\ thread' = thread + 1
           /\ ex' = [ex EXCEPT ![thread + 1].pc = "emit_command"]
           /\ UNCHANGED <<process, rd, procs, nread, caller, rlog, creq>>

\* execute() called on the runner directly
Execute(cb, limit) ==
    /\ caller = "idle"
    /\ ocall = "none"
    /\ execute(cb, limit)
    /\ UNCHANGED orch
    /\ out' = Quiet

\* ---- LocalRunner._execute_thread (one per run r) ----
\* lines 102-106 left out: the thread goes straight to Popen
EmitCommand_Silent(r) ==
    /\ ex[r].pc = "emit_command"
    /\ ex' = [ex EXCEPT ![r].pc = "spawn"]
    /\ UNCHANGED <<state, process, thread, events, output_callback, rd, procs,
                   nread, caller, last, rlog, creq, orch>>
    /\ out' = Quiet

\* lines 102-106
EmitCommand(r) ==
    /\ ex[r].pc = "emit_command"
    /\ _emit_event(RunnerEvent("command", "Executing: ", "cmd", r))
    /\ ex' = [ex EXCEPT ![r].pc = "spawn"]
    /\ UNCHANGED <<state, process, thread, output_callback, rd, procs, nread,
                   caller, last, creq, openai_client, ocall, history, ocancel, rtask, pure>>

\* lines 109-118: Popen either returns a live process, stored in self.process,
\* or raises (executable missing, bad working directory)
Spawn(r) ==
    /\ ex[r].pc = "spawn"
    /\ \/ /\ procs' = [procs EXCEPT ![r].status = "alive"]
          /\ process' = r
          /\ ex' = [ex EXCEPT ![r].pc = "start_readers"]
       \/ /\ TotalFaults < MaxFaults
          /\ ex' = [ex EXCEPT ![r].pc = "except_set", ![r].err = "spawn"]
          /\ UNCHANGED <<procs, process>>
    /\ UNCHANGED <<state, thread, events, output_callback, rd, nread, caller,
                   last, rlog, creq, orch>>
    /\ out' = Quiet

\* lines 121-133: self.process.stdout and self.process.stderr are read from
\* the shared attribute (None raises AttributeError), the readers are started
StartReaders(r) ==
    /\ ex[r].pc = "start_readers"
    /\ IF process = NoProc
         THEN /\ ex' = [ex EXCEPT ![r].pc = "except_set", ![r].err = "attr"]
              /\ UNCHANGED rd
         ELSE /\ rd' = [rd EXCEPT ![r] = [s \in Streams |-> "reading"]]
              /\ ex' = [ex EXCEPT ![r].pc = "wait_call", ![r].src = process]
    /\ UNCHANGED <<state, process, thread, events, output_callback, procs, nread,
                   caller, last, rlog, creq, orch>>
    /\ out' = Quiet

\* line 136, the call: self.process is looked up, then wait() blocks on it
WaitCall(r) ==
    /\ ex[r].pc = "wait_call"
    /\ IF process = NoProc
         THEN ex' = [ex EXCEPT ![r].pc = "except_set", ![r].err = "attr"]
         ELSE ex' = [ex EXCEPT ![r].pc = "waiting", ![r].wait = process]
    /\ UNCHANGED <<state, process, thread, events, output_callback, rd, procs,
                   nread, caller, last, rlog, creq, orch>>
    /\ out' = Quiet
\* lines 143, 150, 157: which branch the thread takes
FinalBranch(st, exit_code) ==
    IF st = "cancelling" THEN "cancelled"
    ELSE IF exit_code = 0 THEN "completed"
    ELSE "failed"

\* lines 136-143: wait() returns the exit code once the awaited process has
\* exited, each join returns when its reader has finished or after 2 s, and
\* the thread then reads self.state to choose its branch
CheckState(r) ==
    /\ ex[r].pc = "waiting"
    /\ procs[ex[r].wait].status = "exited"
    /\ ex' = [ex EXCEPT ![r].pc = "set_state",
                        ![r].exit_code = procs[ex[r].wait].code,
                        ![r].branch = FinalBranch(state, procs[ex[r].wait].code)]
    /\ UNCHANGED <<state, process, thread, events, output_callback, rd, procs,
                   nread, caller, last, rlog, creq, orch>>
    /\ out' = Quiet

\* lines 144, 151, 158
SetState(r) ==
    /\ ex[r].pc = "set_state"
    /\ state' = ex[r].branch
    /\ ex' = [ex EXCEPT ![r].pc = "emit_final"]
    /\ UNCHANGED <<process, thread, events, output_callback, rd, procs, nread,
                   caller, last, rlog, creq, orch>>
    /\ out' = Quiet

\* lines 145-149, 152-156, 159-163
FinalEvent(r) ==
    IF ex[r].branch = "cancelled"
      THEN RunnerEvent("status", "Execution cancelled", "", r)
    ELSE IF ex[r].branch = "completed"
      THEN RunnerEvent("status", "Completed successfully (exit code: ",
                       CodeStr(ex[r].exit_code), r)
    ELSE RunnerEvent("error", "Execution failed (exit code: ",
                     CodeStr(ex[r].exit_code), r)

EmitFinal(r) ==
    /\ ex[r].pc = "emit_final"
    /\ _emit_event(FinalEvent(r))
    /\ ex' = [ex EXCEPT ![r].pc = IF EntersSummarize(FinalEvent(r))
                                    THEN "summarize" ELSE "finally"]
    /\ UNCHANGED <<state, process, thread, output_callback, rd, procs, nread,
                   caller, last, creq, openai_client, ocall, history, ocancel, rtask, pure>>

\* lines 165-166
ExceptSet(r) ==
    /\ ex[r].pc = "except_set"
    /\ state' = "failed"
    /\ ex' = [ex EXCEPT ![r].pc = "except_emit", ![r].branch = "except"]
    /\ UNCHANGED <<process, thread, events, output_callback, rd, procs, nread,
                   caller, last, rlog, creq, orch>>
    /\ out' = Quiet

\* lines 167-171
ExceptEmit(r) ==
    /\ ex[r].pc = "except_emit"
    /\ _emit_event(RunnerEvent("error", "Error during execution: ", ex[r].err, r))
    /\ ex' = [ex EXCEPT ![r].pc =
                 IF EntersSummarize(RunnerEvent("error", "Error during execution: ",
                                                ex[r].err, r))
                   THEN "summarize" ELSE "finally"]
    /\ UNCHANGED <<state, process, thread, output_callback, rd, procs, nread,
                   caller, last, creq, openai_client, ocall, history, ocancel, rtask, pure>>

\* lines 172-173; the thread ends and its locals with it (src stays: it is
\* the stream objects the readers hold)
Finally(r) ==
    /\ ex[r].pc = "finally"
    /\ process' = NoProc
    /\ ex' = [ex EXCEPT ![r] = [pc |-> "done", src |-> ex[r].src, wait |-> NoProc,
                                exit_code |-> 0, branch |-> "none", err |-> "none",
                                runner_state |-> "none"]]
    /\ UNCHANGED <<state, thread, events, output_callback, rd, procs, nread,
                   caller, last, rlog, creq, orch>>
    /\ out' = Quiet

\* ---- LocalRunner._read_stream (reader s of run r) ----
\* lines 178-191: readline() returned a line; it is emitted, and the reader
\* stops early when it then sees CANCELLING
ReadLine(r, s) ==
    /\ rd[r][s] = "reading"
    /\ TotalLines < MaxLines
    /\ nread' = [nread EXCEPT ![ex[r].src][s] = @ + 1]
    /\ _emit_event(RunnerEvent(s, "line", "", r))
    /\ rd' = [rd EXCEPT ![r][s] = IF state = "cancelling" THEN "done" ELSE "reading"]
    /\ UNCHANGED <<state, process, thread, output_callback, ex, procs, caller,
                   last, creq, openai_client, ocall, history, ocancel, rtask, pure>>

\* line 178: readline() returned '' (the pipe was closed by the process's exit)
ReadEOF(r, s) ==
    /\ rd[r][s] = "reading"
    /\ procs[ex[r].src].status = "exited"
    /\ rd' = [rd EXCEPT ![r][s] = "done"]
    /\ UNCHANGED <<state, process, thread, events, output_callback, ex, procs,
                   nread, caller, last, rlog, creq, orch>>
    /\ out' = Quiet

\* lines 192-197: readline() raised
ReadFail(r, s) ==
    /\ rd[r][s] = "reading"
    /\ TotalFaults < MaxFaults
    /\ _emit_event(RunnerEvent("error", "Error reading ", s, r))
    /\ rd' = [rd EXCEPT ![r][s] =
                 IF EntersSummarize(RunnerEvent("error", "Error reading ", s, r))
                   THEN "summarize" ELSE "done"]
    /\ UNCHANGED <<state, process, thread, output_callback, ex, procs, nread,
                   caller, last, creq, openai_client, ocall, history, ocancel, rtask, pure>>

\* ---- the agent process ----
\* the process ends by itself (or on a signal it has received)
ProcExit(p) ==
    /\ procs[p].status = "alive"
    /\ \E c \in ExitCodes : procs' = [procs EXCEPT ![p].status = "exited", ![p].code = c]
    /\ UNCHANGED <<state, process, thread, events, output_callback, ex, rd,
                   nread, caller, last, rlog, creq, orch>>
    /\ out' = Quiet

\* ---- LocalRunner.cancel (caller thread) ----
\* line 211 letting a run that is already being cancelled through as well
CancelIgnored_Reentrant == state \notin {"running", "cancelling"}

\* line 211: every state but RUNNING makes cancel() return at once
CancelIgnored == state # "running"

\* lines 209-212, the entry of cancel()
cancel ==
    /\ IF CancelIgnored
         THEN /\ last' = "cancel_ignored"
              /\ UNCHANGED <<caller, creq>>
         ELSE /\ last' = "ok"
              /\ caller' = "c_set"
              /\ creq' = [creq EXCEPT ![thread] =
                            IF procs[thread].status = "exited" THEN "late" ELSE "live"]
    /\ UNCHANGED <<state, process, thread, events, output_callback, ex, rd,
                   procs, nread, rlog>>

\* cancel() called on the runner directly
CancelCall ==
    /\ caller = "idle"
    /\ ocall = "none"
    /\ cancel
    /\ UNCHANGED orch
    /\ out' = Quiet

\* line 214
CancelSet ==
    /\ caller = "c_set"
    /\ state' = "cancelling"
    /\ caller' = "c_term"
    /\ UNCHANGED <<process, thread, events, output_callback, ex, rd, procs,
                   nread, last, rlog, creq, orch>>
    /\ out' = Quiet

\* a signal reaches the process only while it is alive; SIGKILL ends it
Signal(p, sig) ==
    IF procs[p].status # "alive" THEN procs
    ELSE IF sig = "term" THEN [procs EXCEPT ![p].term = TRUE]
    ELSE [procs EXCEPT ![p].status = "exited", ![p].code = -SIGKILL]

\* lines 216-221: with a process present, terminate() and the 0.5 s sleep
\* (self.process turning None between lines 216 and 218 raises
\* AttributeError, which line 226 swallows: cancel() returns, as for None)
CancelTerminate ==
    /\ caller = "c_term"
    /\ IF process = NoProc
         THEN /\ caller' = "idle"
              /\ UNCHANGED procs
         ELSE /\ procs' = Signal(process, "term")
              /\ caller' = "c_kill"
    /\ UNCHANGED <<state, process, thread, events, output_callback, ex, rd,
                   nread, last, rlog, creq, orch>>
    /\ out' = Quiet

\* lines 224-225: kill() if poll() finds the process still running
CancelKill ==
    /\ caller = "c_kill"
    /\ procs' = IF process = NoProc THEN procs ELSE Signal(process, "kill")
    /\ caller' = "idle"
    /\ UNCHANGED <<state, process, thread, events, output_callback, ex, rd,
                   nread, last, rlog, creq, orch>>
    /\ out' = Quiet

\* ---- LocalRunner.get_events ----
\* a copy of the list self.events names at the moment of the call
get_events == events

\* ---- the system ----
ExecThread(r) ==
    \/ EmitCommand(r) \/ Spawn(r) \/ StartReaders(r) \/ WaitCall(r)
    \/ CheckState(r) \/ SetState(r) \/ EmitFinal(r)
    \/ ExceptSet(r) \/ ExceptEmit(r) \/ Finally(r)

Reader(r, s) == ReadLine(r, s) \/ ReadEOF(r, s) \/ ReadFail(r, s)

Cancel == CancelCall \/ CancelSet \/ CancelTerminate \/ CancelKill

Next ==
    \/ \E cb \in CallbackInputs : Execute(cb, MaxRuns)
    \/ Cancel
    \/ \E r \in Runs : ExecThread(r)
    \/ \E r \in Runs, s \in Streams : Reader(r, s)
    \/ \E p \in Runs : ProcExit(p)

\* the whole runner, one run after the other
Spec == Init /\ [][Next]_vars

\* the scheduler runs every started thread, a started cancel() runs on, and
\* every spawned process exits; the caller need not call again, and a reader
\* may stay blocked on a pipe that a grandchild keeps open
Fairness ==
    /\ \A r \in Runs : WF_vars(ExecThread(r))
    /\ \A p \in Runs : WF_vars(ProcExit(p))
    /\ WF_vars(CancelSet \/ CancelTerminate \/ CancelKill)

FairSpec == Spec /\ Fairness

\* behaviours in which the readers are never scheduled
NextCalls ==
    \/ \E cb \in CallbackInputs : Execute(cb, MaxRuns)
    \/ Cancel
    \/ \E r \in Runs : ExecThread(r)
    \/ \E p \in Runs : ProcExit(p)

SpecCalls == Init /\ [][NextCalls]_vars

\* the same, the caller starting a further run while an earlier one is live
NextRuns ==
    \/ \E cb \in CallbackInputs : Execute(cb, MaxOverlap)
    \/ Cancel
    \/ \E r \in Runs : ExecThread(r)
    \/ \E p \in Runs : ProcExit(p)

SpecRuns == Init /\ [][NextRuns]_vars

\* behaviours in which the caller only calls execute(), again and again
NextSeq ==
    \/ \E cb \in CallbackInputs : Execute(cb, MaxSeq)
    \/ \E r \in Runs : ExecThread(r)
    \/ \E p \in Runs : ProcExit(p)

SpecSeq == Init /\ [][NextSeq]_vars

\* behaviours in which the caller never cancels and no read fails: runs
\* without a callback, their readers and their output
NextOutput ==
    \/ Execute("none", MaxRuns)
    \/ \E r \in Runs : ExecThread(r)
    \/ \E r \in Runs, s \in Streams : ReadLine(r, s) \/ ReadEOF(r, s)
    \/ \E p \in Runs : ProcExit(p)

SpecOutput == Init /\ [][NextOutput]_vars

\* ---- Orchestrator: the provider call inside the sink ----
\* line 145 keeping the first 100
add_history_entry_KeepsOldest(h, entry) ==
    LET all == Append(h, entry)
    IN  SubSeq(all, 1, IF Len(all) < HistoryCap THEN Len(all) ELSE HistoryCap)

\* storage.py 124-152: append, keep the last 100
add_history_entry(h, entry) ==
    LET all == Append(h, entry)
    IN  SubSeq(all, Max2(1, Len(all) - HistoryCap + 1), Len(all))

\* line 299 taking the flag from the runner state of a failed run
HistoryEntry_FailedIsSuccess(task) ==
    [task_id |-> task.task_id, user_request |-> task.user_request,
     success |-> task.execution_result.state = "failed", summary |-> task.summary]

\* orchestrator.py 294-301
HistoryEntry(task) ==
    [task_id |-> task.task_id, user_request |-> task.user_request,
     success |-> task.execution_result.exit_code = 0, summary |-> task.summary]

\* orchestrator.py 263-279: summarize_result returns a text, which is stored
\* on whatever self.current_task is by then, and the task goes to the history
\* (storage.py 150-151 swallows a failed write); or the provider raises
SummarizeReturns ==
    \/ /\ current_task' = [current_task EXCEPT !.summary = "summary"]
       /\ ostate' = "completed"
       /\ out' = Did("summarized", "",
                     <<Msg("summary", "assistant"),
                       HistoryCall(HistoryEntry(current_task'))>>)
       /\ \/ history' = add_history_entry(history, HistoryEntry(current_task'))
          \/ history' = history
    \/ /\ ostate' = "error"
       /\ out' = Did("summarized", "raise",
                     <<Msg("summary error: " \o ProviderError, "system")>>)
       /\ UNCHANGED <<current_task, history>>

\* the sink was entered from the execution thread (lines 152, 167)
ExecSummarize(r) ==
    /\ ex[r].pc = "summarize"
    /\ SummarizeReturns
    /\ ex' = [ex EXCEPT ![r].pc = "finally"]
    /\ UNCHANGED <<state, process, thread, events, output_callback, rd, procs,
                   nread, caller, last, rlog, creq, openai_client, ocall, rres,
                   ocancel, rtask, pure>>

\* the sink was entered from a reader thread (line 193)
ReadSummarize(r, s) ==
    /\ rd[r][s] = "summarize"
    /\ SummarizeReturns
    /\ rd' = [rd EXCEPT ![r][s] = "done"]
    /\ UNCHANGED <<state, process, thread, events, output_callback, ex, procs,
                   nread, caller, last, rlog, creq, openai_client, ocall, rres,
                   ocancel, rtask, pure>>

\* ---- Orchestrator: the methods the caller thread calls ----
runner == <<state, process, thread, events, output_callback, ex, rd, procs,
            nread, rlog, creq>>

\* what storage.get_api_key() and OpenAIClient(api_key) make of the settings:
\* no key stored, a key the client accepts, a key with which the constructor
\* raises
Keys == {"missing", "valid", "rejected"}
\* the answers the user types
Answers == {"a1", "a2"}

\* orchestrator.py 326-332
is_busy == ostate \notin {"idle", "completed", "error"}

\* line 100 testing for a stored key only, whatever initialize() makes of it
ClientMissing_KeyUnused(key) == ~openai_client /\ key = "missing"

\* orchestrator.py 67-79, 100-101: there is no client and initialize() gives
\* none
ClientMissing(key) == ~openai_client /\ key # "valid"

\* orchestrator.py 69-79, 102-106: what start_task says before it returns
\* without a client
ClientMissingNotes(key) ==
    IF key = "rejected"
      THEN <<Msg("client initialization failed: ", "system"),
             Msg("api key not set", "system")>>
      ELSE <<Msg("api key not set", "system")>>

\* orchestrator.py 99-119 and 121-143: the body of start_task, up to the
\* provider call of _generate_plan
start_task(key, limit) ==
    /\ last' = "ok"
    /\ IF ClientMissing(key)
         THEN /\ ocall' = "none"
              /\ out' = Did("start_task", key, ClientMissingNotes(key))
              /\ UNCHANGED <<ostate, current_task, openai_client>>
         ELSE /\ current_task.task_id < limit
              /\ openai_client' = TRUE
              /\ current_task' = Task(current_task.task_id + 1)
              /\ ostate' = "planning"
              /\ ocall' = "plan"
              /\ out' = Did("start_task", key,
                            <<Msg("generating plan", "system"),
                              GeneratePlanCall(<<"request">>)>>)
    /\ UNCHANGED <<runner, caller, history, rres, ocancel, rtask, pure>>

\* start_task called on the orchestrator
StartTask(key, limit) ==
    /\ caller = "idle"
    /\ ocall = "none"
    /\ start_task(key, limit)

\* main_window.py 158-189: the window starts a task only while the
\* orchestrator does not report itself busy; here the call follows the test
\* at once
OnTaskSelected(key, limit) ==
    /\ ~is_busy
    /\ StartTask(key, limit)

\* main_window.py 158-165: the window's test alone; busy, it warns and returns
TaskSelected ==
    /\ caller = "idle"
    /\ ocall = "none"
    /\ ocall' = IF is_busy THEN "none" ELSE "selected"
    /\ last' = "ok"
    /\ out' = Did("task_selected", IF is_busy THEN "busy" ELSE "free", <<>>)
    /\ UNCHANGED <<runner, caller, ostate, current_task, openai_client, history,
                   rres, ocancel, rtask, pure>>

\* main_window.py 166-189: the rest of the handler, ending in start_task
TaskStarted(key, limit) ==
    /\ caller = "idle"
    /\ ocall = "selected"
    /\ start_task(key, limit)

\* lines 151-161 taking a fallback plan for a question
PlanState_TextAsks(resp, cur) ==
    IF resp = "raise" THEN "error"
    ELSE IF resp \in {"clarify", "steps_text"} THEN "clarifying"
    ELSE IF resp = "plan" THEN "reviewing"
    ELSE cur

\* orchestrator.py 151-164: the state _generate_plan leaves for what the
\* provider gave; the fallback dict has type plan
PlanState(resp, cur) ==
    IF resp = "raise" THEN "error"
    ELSE IF resp = "clarify" THEN "clarifying"
    ELSE IF resp \in {"plan", "steps_text"} THEN "reviewing"
    ELSE cur

\* plan.get('type') of what the provider gave
PlanType(resp) ==
    IF resp = "steps_text" THEN "plan" ELSE resp

\* lines 162-164 swallowing the error without a word
PlanNotes_Silent(resp) ==
    IF resp = "clarify" THEN <<Msg("question", "assistant")>>
    ELSE IF resp \in {"plan", "steps_text"} THEN <<PlanReady(resp)>>
    ELSE <<>>

\* orchestrator.py 154-164: what _generate_plan says
PlanNotes(resp) ==
    IF resp = "raise" THEN <<Msg("plan error: " \o ProviderError, "system")>>
    ELSE IF resp = "clarify" THEN <<Msg("question", "assistant")>>
    ELSE IF resp \in {"plan", "steps_text"} THEN <<PlanReady(resp)>>
    ELSE <<>>

\* lines 143-164 without the assignment of line 148
PlanReturns_PlanNotStored(resp) ==
    /\ ocall = "plan"
    /\ ocall' = "none"
    /\ resp = "clarify" => Len(current_task.user_request) <= MaxClarify
    /\ ostate' = PlanState(resp, ostate)
    /\ out' = Did("plan_returned", PlanType(resp), PlanNotes(resp))
    /\ UNCHANGED <<runner, caller, last, current_task, openai_client, history,
                   rres, ocancel, rtask, pure>>

\* orchestrator.py 143-164: generate_plan returns or raises
PlanReturns(resp) ==
    /\ ocall = "plan"
    /\ ocall' = "none"
    /\ resp = "clarify" => Len(current_task.user_request) <= MaxClarify
    /\ current_task' = IF resp = "raise" THEN current_task
                       ELSE [current_task EXCEPT !.plan = resp]
    /\ ostate' = PlanState(resp, ostate)
    /\ out' = Did("plan_returned", PlanType(resp), PlanNotes(resp))
    /\ UNCHANGED <<runner, caller, last, openai_client, history, rres, ocancel, rtask,
                   pure>>

\* line 173 letting a call in REVIEWING through as well
ClarificationIgnored_Reviewing == ostate \notin {"clarifying", "reviewing"}

\* orchestrator.py 173-174
ClarificationIgnored == ostate # "clarifying"

\* line 178 putting the answer in front of the request
Clarified_InFront(request, answer) == <<"\n\nnote: " \o answer>> \o request

\* orchestrator.py 178: user_request += the tagged answer
Clarified(request, answer) == Append(request, "\n\nnote: " \o answer)

\* orchestrator.py 166-180 and 121-143, up to the provider call
ProvideClarification(answer) ==
    /\ caller = "idle"
    /\ ocall = "none"
    /\ last' = "ok"
    /\ IF ClarificationIgnored \/ current_task = NoTask
         THEN /\ out' = Did("provide_clarification", answer, <<>>)
              /\ UNCHANGED <<ostate, current_task, ocall>>
         ELSE /\ current_task' = [current_task EXCEPT
                                    !.user_request = Clarified(@, answer)]
              /\ ostate' = "planning"
              /\ ocall' = "plan"
              /\ out' = Did("provide_clarification", answer,
                            <<Msg("generating plan", "system"),
                              GeneratePlanCall(current_task'.user_request)>>)
    /\ UNCHANGED <<runner, caller, openai_client, history, rres, ocancel, rtask, pure>>

\* line 184 letting a call in IDLE through as well
ExecutePlanIgnored_Idle ==
    ostate \notin {"reviewing", "idle"} \/ current_task = NoTask

\* orchestrator.py 184-185
ExecutePlanIgnored == ostate # "reviewing" \/ current_task = NoTask

\* orchestrator.py 182-202: _build_prompt_from_plan (204-220) calls
\* step.get on every step and raises on a step that is a string; the
\* runner's execute() may raise as well; both leave execute_plan after the
\* transition to RUNNING
ExecutePlan(limit) ==
    /\ caller = "idle"
    /\ ocall = "none"
    /\ IF ExecutePlanIgnored \/ current_task.plan = "none"
         THEN /\ last' = "ok"
              /\ out' = Did("execute_plan", "", <<>>)
              /\ UNCHANGED <<runner, caller, ostate>>
         ELSE /\ ostate' = "running"
              /\ out' = Did("execute_plan", "",
                            <<Msg("starting execution", "system")>>)
              /\ IF current_task.plan = "steps_text"
                   THEN /\ last' = "execute_plan_raised"
                        /\ UNCHANGED <<runner, caller>>
                   ELSE execute("sink", limit)
    /\ rtask' = IF thread' # thread
                  THEN [rtask EXCEPT ![thread'] = current_task.task_id]
                  ELSE rtask
    /\ UNCHANGED <<current_task, openai_client, ocall, history, rres, ocancel,
                   pure>>

\* orchestrator.py 283: the runner's cancel() is entered only from RUNNING
CancelsRunner == ostate = "running"

\* orchestrator.py 281-286: cancel() up to the transition to IDLE, or up to
\* its entry into the runner's cancel()
OrchCancelCall ==
    /\ caller = "idle"
    /\ ocall = "none"
    /\ IF CancelsRunner
         THEN /\ cancel
              /\ ocall' = "cancel"
              /\ out' = Did("cancel", "runner", <<>>)
              /\ UNCHANGED ostate
         ELSE /\ ostate' = "idle"
              /\ last' = "ok"
              /\ ocall' = "cancel_message"
              /\ out' = Did("cancel", "", <<>>)
              /\ UNCHANGED <<runner, caller>>
    /\ ocancel' = IF thread = 0 THEN ocancel ELSE [ocancel EXCEPT ![thread] = TRUE]
    /\ UNCHANGED <<current_task, openai_client, history, rres, rtask, pure>>

\* orchestrator.py 286, once the runner's cancel() has returned
OrchCancelReturn ==
    /\ ocall = "cancel"
    /\ caller = "idle"
    /\ ostate' = "idle"
    /\ ocall' = "cancel_message"
    /\ out' = Did("cancel_transition", "", <<>>)
    /\ UNCHANGED <<runner, caller, last, current_task, openai_client, history,
                   rres, ocancel, rtask, pure>>

\* orchestrator.py 287: the message, after which cancel() returns
OrchCancelDone ==
    /\ ocall = "cancel_message"
    /\ ocall' = "none"
    /\ out' = Did("cancel_returned", "", <<Msg("operation cancelled", "system")>>)
    /\ UNCHANGED <<runner, caller, last, ostate, current_task, openai_client,
                   history, rres, ocancel, rtask, pure>>

OrchCancel ==
    \/ OrchCancelCall \/ OrchCancelReturn \/ OrchCancelDone
    \/ CancelSet \/ CancelTerminate \/ CancelKill

OrchThread(r) == ExecThread(r) \/ ExecSummarize(r)

OrchReader(r, s) == Reader(r, s) \/ ReadSummarize(r, s)

\* the orchestrator driven by the window, one task, with the readers
NextOrch ==
    \/ \E key \in Keys : OnTaskSelected(key, MaxSolo)
    \/ \E resp \in PlanResponses : PlanReturns(resp)
    \/ \E answer \in Answers : ProvideClarification(answer)
    \/ ExecutePlan(MaxSolo)
    \/ OrchCancel
    \/ \E r \in Runs : OrchThread(r)
    \/ \E r \in Runs, s \in Streams : OrchReader(r, s)
    \/ \E p \in Runs : ProcExit(p)

SpecOrch == Init /\ [][NextOrch]_vars

\* task after task: the provider never asks back, the user never cancels and
\* the readers are never scheduled
NextTasks ==
    \/ \E key \in Keys : OnTaskSelected(key, MaxTasks)
    \/ \E resp \in PlanResponses \ {"clarify"} : PlanReturns(resp)
    \/ ExecutePlan(MaxTasks)
    \/ \E r \in Runs : OrchThread(r)
    \/ \E p \in Runs : ProcExit(p)

SpecTasks == Init /\ [][NextTasks]_vars

\* one task with cancellation; the provider never asks back and the readers
\* are never scheduled
NextSolo ==
    \/ \E key \in Keys : OnTaskSelected(key, MaxSolo)
    \/ \E resp \in PlanResponses \ {"clarify"} : PlanReturns(resp)
    \/ ExecutePlan(MaxSolo)
    \/ OrchCancel
    \/ \E r \in Runs : OrchThread(r)
    \/ \E p \in Runs : ProcExit(p)

SpecSolo == Init /\ [][NextSolo]_vars

\* one task that nobody cancels, the readers of its run scheduled as well
NextDrain ==
    \/ \E key \in Keys : OnTaskSelected(key, MaxSolo)
    \/ \E resp \in PlanResponses \ {"clarify"} : PlanReturns(resp)
    \/ ExecutePlan(MaxSolo)
    \/ \E r \in Runs : OrchThread(r)
    \/ \E r \in Runs, s \in Streams : OrchReader(r, s)
    \/ \E p \in Runs : ProcExit(p)

SpecDrain == Init /\ [][NextDrain]_vars

\* one task with everything the caller can do: answers to questions of the
\* provider, execution, cancellation; the readers are never scheduled
NextSession ==
    \/ \E key \in Keys : OnTaskSelected(key, MaxSolo)
    \/ \E resp \in PlanResponses : PlanReturns(resp)
    \/ \E answer \in Answers : ProvideClarification(answer)
    \/ ExecutePlan(MaxSolo)
    \/ OrchCancel
    \/ \E r \in Runs : OrchThread(r)
    \/ \E p \in Runs : ProcExit(p)

SpecSession == Init /\ [][NextSession]_vars

\* main_window.py 276-282: the user answers No in the dialog that shows the
\* plan, and the window cancels the review
PlanDeclined ==
    /\ ostate = "reviewing"
    /\ OrchCancelCall

\* task after task as in SpecTasks, the user also answering out of turn and
\* declining plans
NextReview ==
    \/ \E key \in Keys : OnTaskSelected(key, MaxTasks)
    \/ \E resp \in PlanResponses \ {"clarify"} : PlanReturns(resp)
    \/ \E answer \in Answers : ProvideClarification(answer)
    \/ ExecutePlan(MaxTasks)
    \/ PlanDeclined
    \/ OrchCancelDone
    \/ \E r \in Runs : OrchThread(r)
    \/ \E p \in Runs : ProcExit(p)

SpecReview == Init /\ [][NextReview]_vars

\* one task as in SpecReview, the provider asking back as well
NextDialog ==
    \/ \E key \in Keys : OnTaskSelected(key, MaxSolo)
    \/ \E resp \in PlanResponses : PlanReturns(resp)
    \/ \E answer \in Answers : ProvideClarification(answer)
    \/ ExecutePlan(MaxSolo)
    \/ PlanDeclined
    \/ OrchCancelDone
    \/ \E r \in Runs : OrchThread(r)
    \/ \E p \in Runs : ProcExit(p)

SpecDialog == Init /\ [][NextDialog]_vars

\* the caller plans, answers and gives up, and never executes a plan
NextPlanning ==
    \/ \E key \in Keys : OnTaskSelected(key, MaxPlanned)
    \/ \E resp \in PlanResponses : PlanReturns(resp)
    \/ \E answer \in Answers : ProvideClarification(answer)
    \/ OrchCancelCall
    \/ OrchCancelDone

SpecPlanning == Init /\ [][NextPlanning]_vars

\* the window: its test and its call of start_task are two steps of the
\* caller thread, and the runner's threads run between them; one run
NextWindow ==
    \/ TaskSelected
    \/ \E key \in Keys : TaskStarted(key, MaxTasks)
    \/ \E resp \in PlanResponses \ {"clarify"} : PlanReturns(resp)
    \/ ExecutePlan(MaxSolo)
    \/ OrchCancel
    \/ \E r \in Runs : OrchThread(r)
    \/ \E p \in Runs : ProcExit(p)

SpecWindow == Init /\ [][NextWindow]_vars

\* ---- the planning client and the prompt builder as functions ----
MaxSteps == 2     \* steps in a plan the provider returns, SpecPlan

\* the objects found in a plan's steps list: a dict, of which only the
\* 'description' entry is read ("" also stands for a dict without one), or a
\* bare string
DictStep(description) == [py |-> "dict", description |-> description, text |-> ""]
StrStep(text) == [py |-> "str", description |-> "", text |-> text]
Descriptions == {"a", "b", ""}
StepLists == UNION {[1..n -> {DictStep(d) : d \in Descriptions}] : n \in 0..MaxSteps}

\* a plan dict: its 'type', whether it has a 'steps' entry, and the entries
PlanDict(type, has_steps, steps, warnings) ==
    [type |-> type, has_steps |-> has_steps, steps |-> steps, warnings |-> warnings]
NoPlan == PlanDict("none", FALSE, <<>>, <<>>)

\* what _call_api returns: a text that is the JSON form of a dict, or a text
\* json.loads rejects
JsonText(value) == [parses |-> TRUE, text |-> "", value |-> value]
PlainText(text) == [parses |-> FALSE, text |-> text, value |-> NoPlan]
Responses ==
    {JsonText(PlanDict("plan", TRUE, steps, <<>>)) : steps \in StepLists}
      \cup {JsonText(PlanDict("plan", FALSE, <<>>, <<>>)),
            JsonText(PlanDict("clarify", FALSE, <<>>, <<>>)),
            JsonText(PlanDict("other", FALSE, <<>>, <<>>))}
      \cup {PlainText("do it"), PlainText("list files")}
\* the task's request text, as typed and after a clarification
Requests == {"request", "request\n\nnote: a1", "request\n\nnote: a2"}

\* openai_client.py 94-106
generate_plan(response) ==
    IF response.parses THEN response.value
    ELSE PlanDict("plan", TRUE, <<StrStep(response.text)>>, <<>>)

Returned(text) == [raised |-> FALSE, text |-> text]
Raised(error) == [raised |-> TRUE, text |-> error]

\* orchestrator.py 204-220: step.get raises AttributeError on a str
_build_prompt_from_plan(plan, user_request) ==
    LET steps == IF plan.has_steps THEN plan.steps ELSE <<>>
        described(step) == step.description # ""
        prompt_parts ==
            [i \in DOMAIN SelectSeq(steps, described) |->
                SelectSeq(steps, described)[i].description]
    IN  IF steps = <<>> THEN Returned(user_request)
        ELSE IF \E i \in DOMAIN steps : steps[i].py # "dict"
          THEN Raised("AttributeError")
        ELSE IF prompt_parts # <<>> THEN Returned(NewlineJoin(prompt_parts))
        ELSE Returned(user_request)

\* the provider has answered a request
InitPlan ==
    /\ Idle0
    /\ pure \in {[pc |-> "response", response |-> r, request |-> q,
                  plan |-> NoPlan, prompt |-> Returned("")] :
                    r \in Responses, q \in Requests}

\* generate_plan's parse of the answer
GeneratePlan ==
    /\ pure.pc = "response"
    /\ pure' = [pure EXCEPT !.pc = "planned", !.plan = generate_plan(pure.response)]
    /\ out' = Quiet
    /\ UNCHANGED <<state, process, thread, events, output_callback, ex, rd,
                   procs, nread, caller, last, rlog, creq, ostate,
                   current_task, openai_client, ocall, history, rres, ocancel, rtask>>

\* execute_plan's call of _build_prompt_from_plan, on a plan that got the
\* orchestrator to REVIEWING
BuildPrompt ==
    /\ pure.pc = "planned"
    /\ pure.plan.type = "plan"
    /\ pure' = [pure EXCEPT !.pc = "built",
                  !.prompt = _build_prompt_from_plan(pure.plan, pure.request)]
    /\ out' = Quiet
    /\ UNCHANGED <<state, process, thread, events, output_callback, ex, rd,
                   procs, nread, caller, last, rlog, creq, ostate,
                   current_task, openai_client, ocall, history, rres, ocancel, rtask>>

NextPlan == GeneratePlan \/ BuildPrompt

SpecPlan == InitPlan /\ [][NextPlan]_vars

\* ---- the history store on its own ----
MaxAdds == 102    \* calls of add_history_entry in a behaviour of SpecHistory

\* the entry of the n-th call
NthEntry(n) ==
    [task_id |-> n, user_request |-> <<"request">>, success |-> TRUE,
     summary |-> "summary"]

\* no call made yet, the history file absent; written lists the calls whose
\* write went through
InitHistory ==
    /\ Idle0
    /\ pure = [pc |-> "store", added |-> 0, written |-> <<>>]

\* storage.py 131-148: the file is read, the entry appended, the last 100
\* written back
AddHistoryEntry ==
    /\ pure.pc = "store"
    /\ pure.added < MaxAdds
    /\ history' = add_history_entry(history, NthEntry(pure.added + 1))
    /\ pure' = [pure EXCEPT !.added = @ + 1,
                            !.written = Append(@, pure.added + 1)]
    /\ out' = Quiet
    /\ UNCHANGED <<state, process, thread, events, output_callback, ex, rd,
                   procs, nread, caller, last, rlog, creq, ostate,
                   current_task, openai_client, ocall, rres, ocancel, rtask>>

\* storage.py 150-151: reading or writing the file raises, which is printed
\* and swallowed; the file stays as it was
AddHistoryEntryFails ==
    /\ pure.pc = "store"
    /\ pure.added < MaxAdds
    /\ pure.added - Len(pure.written) < MaxFaults
    /\ pure' = [pure EXCEPT !.added = @ + 1]
    /\ out' = Quiet
    /\ UNCHANGED <<state, process, thread, events, output_callback, ex, rd,
                   procs, nread, caller, last, rlog, creq, ostate,
                   current_task, openai_client, ocall, history, rres, ocancel, rtask>>

NextHistory == AddHistoryEntry \/ AddHistoryEntryFails

SpecHistory == InitHistory /\ [][NextHistory]_vars

\* ---- CodexWrapper.execute_prompt_streaming on its own ----
\* the timeout argument in seconds, 300 by default; NoTimeout stands for None
NoTimeout == 0
Timeouts == {300, 5, NoTimeout}

\* lines 217-222 returning what a failed read returns
TimedOutResult_AsReadError(timeout, lines) ==
    [success |-> FALSE, output |-> lines,
     error |-> "Error occurred during output reading", exit_code |-> -1]

\* codex_wrapper.py 217-222
TimedOutResult(timeout, lines) ==
    [success |-> FALSE, output |-> lines,
     error |-> "Execution timed out after " \o ToString(timeout) \o " seconds",
     exit_code |-> -1]

\* codex_wrapper.py 227-232
ExitResult(code, lines, error_occurred) ==
    [success |-> code = 0, output |-> lines,
     error |-> IF error_occurred THEN "Error occurred during output reading" ELSE "",
     exit_code |-> code]

NoCodexResult == [success |-> FALSE, output |-> 0, error |-> "none", exit_code |-> 0]

\* codex_wrapper.py 176-214: the process is spawned, the reader thread is
\* started and the caller is inside process.wait(timeout)
InitWrapper ==
    /\ Idle0
    /\ pure \in {[pc |-> "wait", timeout |-> t, proc |-> "alive", code |-> 0,
                  killed |-> FALSE, expired |-> FALSE, reader |-> "reading",
                  lines |-> 0, faults |-> 0, result |-> NoCodexResult] :
                    t \in Timeouts}

WrapperStep(next) ==
    /\ pure' = next
    /\ out' = Quiet
    /\ UNCHANGED <<state, process, thread, events, output_callback, ex, rd,
                   procs, nread, caller, last, rlog, creq, ostate,
                   current_task, openai_client, ocall, history, rres, ocancel, rtask>>

\* the process ends by itself
WrapperProcExit ==
    /\ pure.pc \in {"wait", "kill", "join", "returned"}
    /\ pure.proc = "alive"
    /\ \E c \in ExitCodes :
          WrapperStep([pure EXCEPT !.proc = "exited", !.code = c])

\* codex_wrapper.py 198-202: the reader thread gets a line
WrapperReadLine ==
    /\ pure.pc \in {"wait", "kill", "join", "returned"}
    /\ pure.reader = "reading"
    /\ pure.lines < MaxLines
    /\ WrapperStep([pure EXCEPT !.lines = @ + 1])

\* codex_wrapper.py 198: readline() returns '' once the process has ended
WrapperReadEOF ==
    /\ pure.pc \in {"wait", "kill", "join", "returned"}
    /\ pure.reader = "reading"
    /\ pure.proc = "exited"
    /\ WrapperStep([pure EXCEPT !.reader = "done"])

\* codex_wrapper.py 203-206: readline() or the callback raises
WrapperReadFail ==
    /\ pure.pc \in {"wait", "kill", "join", "returned"}
    /\ pure.reader = "reading"
    /\ pure.faults < MaxFaults
    /\ WrapperStep([pure EXCEPT !.reader = "failed", !.faults = @ + 1])

\* codex_wrapper.py 214: wait() returns, the process having ended in time
WrapperWaitReturns ==
    /\ pure.pc = "wait"
    /\ pure.proc = "exited"
    /\ WrapperStep([pure EXCEPT !.pc = "join"])

\* codex_wrapper.py 214-215: the timeout passes with the process alive and
\* wait() raises TimeoutExpired
WrapperTimeout ==
    /\ pure.pc = "wait"
    /\ pure.timeout # NoTimeout
    /\ pure.proc = "alive"
    /\ WrapperStep([pure EXCEPT !.pc = "kill", !.expired = TRUE])

\* codex_wrapper.py 216-222: kill(), which ends a process still alive, and
\* the result is returned without a join
WrapperKill ==
    /\ pure.pc = "kill"
    /\ WrapperStep([pure EXCEPT
          !.pc = "returned",
          !.killed = TRUE,
          !.proc = "exited",
          !.code = IF pure.proc = "alive" THEN -SIGKILL ELSE @,
          !.result = TimedOutResult(pure.timeout, pure.lines)])

\* codex_wrapper.py 225-232: join(timeout=5) returns, the reader done or
\* not, and the result is built from the return code
WrapperJoin ==
    /\ pure.pc = "join"
    /\ WrapperStep([pure EXCEPT
          !.pc = "returned",
          !.result = ExitResult(pure.code, pure.lines, pure.reader = "failed")])

NextWrapper ==
    \/ WrapperProcExit \/ WrapperReadLine \/ WrapperReadEOF \/ WrapperReadFail
    \/ WrapperWaitReturns \/ WrapperTimeout \/ WrapperKill \/ WrapperJoin

SpecWrapper == InitWrapper /\ [][NextWrapper]_vars

\* ---- LocalRunner with a callback that takes its time ----
MaxBacklog == 2   \* output lines the agent process writes in SpecSlow

\* runner.py 178-205 for a line: readline() returned it, _emit_event has
\* appended it to self.events and has called the callback, which is a
\* consumer that has not returned yet; the reader thread is inside that call
ReadLineCall(r, s) ==
    /\ rd[r][s] = "reading"
    /\ output_callback = "consumer"
    /\ TotalLines < MaxBacklog
    /\ nread' = [nread EXCEPT ![ex[r].src][s] = @ + 1]
    /\ events' = Append(events, RunnerEvent(s, "line", "", r))
    /\ rlog' = [rlog EXCEPT ![r] =
                  Append(@, [ev |-> RunnerEvent(s, "line", "", r),
                             cb |-> output_callback])]
    /\ rd' = [rd EXCEPT ![r][s] = "callback"]
    /\ UNCHANGED <<state, process, thread, output_callback, ex, procs, caller,
                   last, creq, orch>>
    /\ out' = Quiet

\* runner.py 205, 189-191: the consumer returns (or raises, which line 206
\* swallows) and the reader goes on to its check of CANCELLING
ReadLineReturn(r, s) ==
    /\ rd[r][s] = "callback"
    /\ rd' = [rd EXCEPT ![r][s] = IF state = "cancelling" THEN "done" ELSE "reading"]
    /\ UNCHANGED <<state, process, thread, events, output_callback, ex, procs,
                   nread, caller, last, rlog, creq, orch>>
    /\ out' = Quiet

\* one run whose callback is a consumer slow on output lines
NextSlow ==
    \/ Execute("consumer", MaxSolo)
    \/ \E r \in Runs : ExecThread(r)
    \/ \E r \in Runs, s \in Streams :
          ReadLineCall(r, s) \/ ReadLineReturn(r, s) \/ ReadEOF(r, s)
    \/ \E p \in Runs : ProcExit(p)

SpecSlow == Init /\ [][NextSlow]_vars

\* ---- the sink, entered on a runner thread while the caller goes on ----
MaxRounds == 3   \* tasks the window starts one after another in SpecHandoff

\* runner.py 145-149, 152-156, 159-163, 167-171: the event the thread of run
\* r is about to emit at the end of its run
LastEvent(r) ==
    IF ex[r].pc = "emit_final"
      THEN FinalEvent(r)
      ELSE RunnerEvent("error", "Error during execution: ", ex[r].err, r)

\* runner.py 199-205 and orchestrator.py 222-233 for that event: it is
\* appended and handed to the callback; the sink forwards it, reads
\* runner.get_state() at line 230 and, the state being terminal, is about to
\* call _on_execution_finished with what it has read
SinkCall(r) ==
    /\ ex[r].pc \in {"emit_final", "except_emit"}
    /\ events' = Append(events, LastEvent(r))
    /\ rlog' = [rlog EXCEPT ![r] =
                  Append(@, [ev |-> LastEvent(r), cb |-> output_callback])]
    /\ ex' = IF output_callback = "sink" /\ state \in TerminalStates
               THEN [ex EXCEPT ![r].pc = "finished", ![r].runner_state = state]
               ELSE [ex EXCEPT ![r].pc = "finally"]
    /\ out' = IF output_callback = "sink"
                THEN Did("sink", LastEvent(r).type, <<>>)
                ELSE Quiet
    /\ UNCHANGED <<state, process, thread, output_callback, rd, procs, nread,
                   caller, last, creq, orch>>

\* orchestrator.py 235-256: _on_execution_finished runs with the state read
\* at line 230; current_task, get_events() and the transition are of the
\* moment it runs
SinkFinished(r) ==
    /\ ex[r].pc = "finished"
    /\ IF current_task = NoTask
         THEN /\ ex' = [ex EXCEPT ![r].pc = "finally"]
              /\ out' = Did("finished", "", <<>>)
              /\ UNCHANGED <<ostate, current_task, rres>>
         ELSE /\ _on_execution_finished(ex[r].runner_state, get_events, r)
              /\ ex' = [ex EXCEPT ![r].pc =
                          IF ex[r].runner_state = "completed" /\ openai_client
                            THEN "summarize" ELSE "finally"]
              /\ out' = Did("finished", ex[r].runner_state,
                            IF ex[r].runner_state = "completed" THEN <<>>
                            ELSE <<Msg("execution failed", "system")>>)
    /\ UNCHANGED <<state, process, thread, events, output_callback, rd, procs,
                   nread, caller, last, rlog, creq, openai_client, ocall,
                   history, ocancel, rtask, pure>>

\* runner.py 109-118 where the agent's executable is not installed: Popen
\* raises in every run
SpawnRaises(r) ==
    /\ ex[r].pc = "spawn"
    /\ ex' = [ex EXCEPT ![r].pc = "except_set", ![r].err = "spawn"]
    /\ UNCHANGED <<state, process, thread, events, output_callback, rd, procs,
                   nread, caller, last, rlog, creq, orch>>
    /\ out' = Quiet

\* _execute_thread where Popen raises, with the sink's two halves as steps
\* of their own
HandoffThread(r) ==
    \/ EmitCommand(r) \/ SpawnRaises(r) \/ ExceptSet(r)
    \/ SinkCall(r) \/ SinkFinished(r) \/ Finally(r)

\* task after task with cancellation: the key is valid, the provider always
\* answers with a plan of steps, the agent's executable is missing (so that
\* cancel() finds no process to kill), and the runner is asked for MaxTasks
\* runs at most
NextHandoff ==
    \/ OnTaskSelected("valid", MaxRounds)
    \/ PlanReturns("plan")
    \/ ExecutePlan(MaxTasks)
    \/ OrchCancelCall \/ OrchCancelReturn \/ OrchCancelDone
    \/ CancelSet \/ CancelTerminate
    \/ \E r \in Runs : HandoffThread(r)

SpecHandoff == Init /\ [][NextHandoff]_vars

TypeOK ==
    /\ ostate \in OrchestratorState
    /\ current_task.task_id \in 0..Max2(Cardinality(Runs), MaxRounds)
    /\ current_task.plan \in PlanKinds \cup {"none"}
    /\ openai_client \in BOOLEAN
    /\ ocall \in {"none", "plan", "cancel", "cancel_message", "selected"}
    /\ out.call \in {"none", "sink", "summarized", "start_task", "task_selected",
                     "plan_returned", "provide_clarification", "execute_plan",
                     "cancel", "cancel_transition", "cancel_returned",
                     "finished"}
    /\ Len(history) <= HistoryCap
    /\ state \in RunnerState
    /\ process \in {NoProc} \cup Runs
    /\ thread \in {0} \cup Runs
    /\ output_callback \in CallbackInputs \cup {"consumer"}
    /\ caller \in {"idle", "c_set", "c_term", "c_kill"}
    /\ last \in {"ok", "execute_raised", "cancel_ignored", "execute_plan_raised"}
    /\ \A r \in Runs : /\ creq[r] \in {"no", "live", "late"}
                       /\ ex[r].src \in {NoProc} \cup Runs
                       /\ ex[r].wait \in {NoProc} \cup Runs
                       /\ procs[r].status \in {"none", "alive", "exited"}
                       /\ procs[r].code \in ExitCodes \cup {-SIGKILL}

\* ---- reading the per-run logs ----
TerminalTexts == {"Execution cancelled", "Completed successfully (exit code: ",
                  "Execution failed (exit code: ", "Error during execution: "}
FailedTexts == {"Execution failed (exit code: ", "Error during execution: "}
Terminals(r) == {i \in DOMAIN rlog[r] : rlog[r][i].ev.text \in TerminalTexts}
ErrorEvents(r) == {i \in DOMAIN rlog[r] : rlog[r][i].ev.type = "error"}
ReadErrors(r) == {i \in DOMAIN rlog[r] : rlog[r][i].ev.text = "Error reading "}
Done(r) == ex[r].pc = "done"
SpawnFailed(r) == SpawnFaultsOf(r) = 1
SignalSent ==
    \E p \in Runs : \/ procs'[p].term /\ ~procs[p].term
                    \/ procs[p].status = "alive" /\ procs'[p].code = -SIGKILL

\* C1: execute() on a RUNNING runner raises and starts nothing. A step that
\* ends with execute() having raised begins in RUNNING and changes no thread,
\* process, state, callback or buffer; and no step taken from RUNNING starts an
\* execution thread, replaces the callback or resets the event buffer.
C1_ExecuteWhileRunningRaises ==
    [][ /\ (last' = "execute_raised" /\ last # "execute_raised") =>
              /\ state = "running"
              /\ UNCHANGED <<state, process, thread, events, output_callback,
                             ex, rd, procs, nread, caller, rlog, creq>>
        /\ state = "running" =>
              /\ thread' = thread
              /\ \A r \in Runs : ex[r].pc = "none" => ex'[r].pc = "none"
              /\ output_callback' = output_callback
              /\ Len(events') >= Len(events)
      ]_vars

\* C1 witness: execute() has just raised while the run's process is alive
C1_Witness ==
    /\ last = "execute_raised"
    /\ state = "running"
    /\ procs[thread].status = "alive"

\* C2: at most one agent process started by the runner is alive at any time.
C2_AtMostOneProcessAlive ==
    Cardinality({p \in Runs : procs[p].status = "alive"}) <= 1

\* C3: a finished run has emitted exactly one terminal event (the one its
\* execution thread emits after the joins), and no stdout, stderr, status or
\* error event of the run comes after that event.
C3_TerminalEventOnceAndLast ==
    \A r \in Runs :
        /\ ex[r].pc \in {"finally", "done"} => Cardinality(Terminals(r)) = 1
        /\ \A i \in Terminals(r) : \A j \in DOMAIN rlog[r] :
              j > i => rlog[r][j].ev.type \notin {"stdout", "stderr", "status", "error"}

\* C4: a run during which cancel() was called before its process had exited,
\* and whose process has exited, ends with the status event "Execution
\* cancelled" (final state CANCELLED), whatever the exit code.
C4_CancelledRunEndsCancelled ==
    \A r \in Runs :
        (creq[r] = "live" /\ Done(r) /\ procs[r].status = "exited") =>
            \A i \in Terminals(r) :
                /\ rlog[r][i].ev.type = "status"
                /\ rlog[r][i].ev.text = "Execution cancelled"

\* C5: a run started by the orchestrator whose process exited with code 0 and
\* during which neither the orchestrator's nor the runner's cancel() was
\* called ends COMPLETED: its only
\* terminal event is the status event "Completed successfully" carrying exit
\* code 0, and the execution result the orchestrator assembled for it has
\* state completed, exit_code 0 and, if the run emitted no stderr event, the
\* empty string as stderr.
C5_ExitZeroEndsCompleted ==
    \A r \in Runs :
        (/\ Done(r)
         /\ creq[r] = "no"
         /\ ~ocancel[r]
         /\ procs[r].status = "exited"
         /\ procs[r].code = 0
         /\ \A i \in DOMAIN rlog[r] : rlog[r][i].cb = "sink") =>
            /\ Cardinality(Terminals(r)) = 1
            /\ \A i \in Terminals(r) :
                  /\ rlog[r][i].ev.type = "status"
                  /\ rlog[r][i].ev.text = "Completed successfully (exit code: "
                  /\ rlog[r][i].ev.arg = "0"
            /\ rres[r].state = "completed"
            /\ rres[r].exit_code = 0
            /\ (\A i \in DOMAIN rlog[r] : rlog[r][i].ev.type # "stderr") =>
                  rres[r].stderr = ""

\* C6: a run with no cancel() whose process exited with a nonzero code ends
\* FAILED, and its events hold exactly one error event, which carries the code.
C6_NonzeroExitOneErrorEvent ==
    \A r \in Runs :
        (creq[r] = "no" /\ Done(r) /\ procs[r].status = "exited" /\ procs[r].code # 0) =>
            /\ \A i \in Terminals(r) : rlog[r][i].ev.text = "Execution failed (exit code: "
            /\ Cardinality(ErrorEvents(r)) = 1
            /\ \A i \in ErrorEvents(r) : rlog[r][i].ev.arg = CodeStr(procs[r].code)

\* C7: a run whose process could not be spawned ends FAILED with the error
\* event that carries the failure, and from then on, as long as it is the
\* runner's latest run, the state never becomes COMPLETED or CANCELLED.
C7_SpawnFailureStaysFailed ==
    /\ [](\A r \in Runs : (Done(r) /\ SpawnFailed(r)) =>
             /\ Cardinality(Terminals(r)) = 1
             /\ \A i \in Terminals(r) :
                   /\ rlog[r][i].ev.type = "error"
                   /\ rlog[r][i].ev.text = "Error during execution: "
                   /\ rlog[r][i].ev.arg = "spawn")
    /\ [][ (/\ thread # 0
            /\ thread' = thread
            /\ SpawnFailed(thread)
            /\ ex[thread].pc \in {"except_emit", "finally", "done"}) =>
                 state' \notin {"completed", "cancelled"} ]_vars

\* C8: a run in which a reader's readline() failed before the terminal event
\* ends FAILED, whatever the exit code.
C8_ReadFailureEndsFailed ==
    \A r \in Runs :
        Done(r) =>
            \A i \in Terminals(r) :
                (\E j \in ReadErrors(r) : j < i) => rlog[r][i].ev.text \in FailedTexts

\* C9: the runner never stays RUNNING or CANCELLING for ever: from either it
\* reaches COMPLETED, FAILED or CANCELLED.
C9_EventuallyTerminal ==
    [](state \in {"running", "cancelling"} => <>(state \in TerminalStates))

\* C10: cancel() on a runner that is not RUNNING returns at once. A step that
\* ends with cancel() having been ignored begins in another state than RUNNING
\* and changes nothing; and with the caller between calls and the state not
\* RUNNING, no step takes the caller into cancel()'s body or signals a process.
C10_CancelIgnoredUnlessRunning ==
    [][ /\ (last' = "cancel_ignored" /\ last # "cancel_ignored") =>
              /\ state # "running"
              /\ UNCHANGED <<state, process, thread, events, output_callback,
                             ex, rd, procs, nread, caller, rlog, creq>>
        /\ (state # "running" /\ caller = "idle") =>
              /\ caller' = "idle"
              /\ ~SignalSent
      ]_vars

\* C10 witness: a second cancel() has been ignored in CANCELLING while the
\* run's process is alive
C10_Witness ==
    /\ last = "cancel_ignored"
    /\ state = "cancelling"
    /\ \E p \in Runs : procs[p].status = "alive"

\* C11: cancel() called on a RUNNING runner gets a termination request to the
\* process of the run it cancels, whenever it is called. Once a cancel() that
\* was let in has returned, the run's state has been set to CANCELLING and
\* the process of that run is not alive without having been sent a
\* termination signal.
C11_CancelReachesProcess ==
    \A r \in Runs :
        (creq[r] # "no" /\ caller = "idle" /\ procs[r].status = "alive") =>
            procs[r].term

\* C12: every change of the orchestrator state follows the transition table.
\* CLARIFYING and REVIEWING are entered only from PLANNING, RUNNING only from
\* REVIEWING and by execute_plan, SUMMARIZING only from RUNNING, COMPLETED
\* only from SUMMARIZING, and the state entered is one of the eight of the
\* table, never APPLYING.
C12_TransitionTable ==
    [][ ostate' # ostate =>
          /\ ostate' \in OrchestratorState \ {"applying"}
          /\ ostate' \in {"clarifying", "reviewing"} => ostate = "planning"
          /\ ostate' = "running" =>
                ostate = "reviewing" /\ out'.call = "execute_plan"
          /\ ostate' = "summarizing" => ostate = "running"
          /\ ostate' = "completed" => ostate = "summarizing"
      ]_vars

\* C13: start_task called while the orchestrator is busy (PLANNING,
\* CLARIFYING, REVIEWING, RUNNING or SUMMARIZING) is rejected. A step that
\* enters start_task from a busy state leaves the orchestrator state and the
\* current task as they are and calls no generate_plan.
C13_StartTaskRejectedWhileBusy ==
    [][ (out'.call = "start_task" /\ is_busy) =>
          /\ UNCHANGED <<ostate, current_task>>
          /\ \A i \in DOMAIN out'.notes : out'.notes[i].kind # "generate_plan"
      ]_vars

\* C14: start_task without a planning client, when initialize() gives none
\* (no API key stored, or the client cannot be built from it), only emits
\* system messages. The orchestrator state stays IDLE, no task is created or
\* replaced, no client appears and generate_plan is not called.
C14_NoClientOnlyMessage ==
    [][ (out'.call = "start_task" /\ ~openai_client /\ out'.arg # "valid") =>
          /\ UNCHANGED <<ostate, current_task, openai_client, ocall>>
          /\ ostate' = "idle"
          /\ Len(out'.notes) >= 1
          /\ \A i \in DOMAIN out'.notes :
                out'.notes[i].kind = "message" /\ out'.notes[i].sender = "system"
      ]_vars

\* C14 witness: start_task has returned after the API key message only, no
\* key being stored, with no task and no client
C14_Witness ==
    /\ out = Did("start_task", "missing", <<Msg("api key not set", "system")>>)
    /\ ~openai_client
    /\ current_task = NoTask
    /\ ostate = "idle"

\* C15: when generate_plan, called from start_task or provide_clarification,
\* returns a response of type clarify, the orchestrator goes to CLARIFYING
\* and emits the question as an assistant message and no plan-ready
\* notification; when it returns a response of type plan, the orchestrator
\* goes to REVIEWING and emits exactly one plan-ready notification, which
\* carries the plan stored on the task.
C15_PlanResponseHandled ==
    [][ out'.call = "plan_returned" =>
          /\ out'.arg = "clarify" =>
                /\ ostate' = "clarifying"
                /\ out'.notes = <<Msg("question", "assistant")>>
          /\ out'.arg = "plan" =>
                /\ ostate' = "reviewing"
                /\ Len(out'.notes) = 1
                /\ out'.notes[1].kind = "plan_ready"
                /\ out'.notes[1].plan = current_task'.plan
                /\ current_task'.plan \in {"plan", "steps_text"}
      ]_vars

\* C15 witness: the provider has asked back, been answered, and the plan that
\* then came has been announced once, in REVIEWING
C15_Witness ==
    /\ out = Did("plan_returned", "plan", <<PlanReady("plan")>>)
    /\ ostate = "reviewing"
    /\ Len(current_task.user_request) = 2

\* C17: provide_clarification called in any state but CLARIFYING, REVIEWING
\* for one, does nothing. The orchestrator state, the task with its request
\* text and its plan are unchanged, nothing is emitted and generate_plan is
\* not called.
C17_ClarificationIgnoredElsewhere ==
    [][ (out'.call = "provide_clarification" /\ ostate # "clarifying") =>
          /\ UNCHANGED <<ostate, current_task, ocall>>
          /\ out'.notes = <<>>
      ]_vars

\* C17 witness: an answer has been given in REVIEWING, where a task with a
\* plan exists
C17_Witness ==
    /\ out.call = "provide_clarification"
    /\ ostate = "reviewing"
    /\ current_task.plan = "plan"
    /\ ocall = "none"

\* C18: provide_clarification(answer) in CLARIFYING appends the tagged answer
\* to the end of the task's request text, so that the text before stays a
\* prefix and successive answers accumulate in the order given; it goes to
\* PLANNING and calls generate_plan again with the extended request.
C18_ClarificationAppended ==
    [][ (out'.call = "provide_clarification" /\ ostate = "clarifying") =>
          LET old == current_task.user_request
              new == current_task'.user_request
          IN  /\ Len(new) = Len(old) + 1
              /\ SubSeq(new, 1, Len(old)) = old
              /\ new[Len(new)] = "\n\nnote: " \o out'.arg
              /\ ostate' = "planning"
              /\ ocall' = "plan"
              /\ \E i \in DOMAIN out'.notes :
                    out'.notes[i] = GeneratePlanCall(new)
              /\ \A i \in DOMAIN out'.notes :
                    out'.notes[i].kind = "generate_plan" =>
                        out'.notes[i].request = new
      ]_vars

\* C18 witness: a second answer has been appended after a first, different
\* one, and generate_plan is running on the request with both
C18_Witness ==
    /\ out.call = "provide_clarification"
    /\ ostate = "planning"
    /\ current_task.user_request =
          <<"request", "\n\nnote: a2", "\n\nnote: a1">>
    /\ out.notes[2] = GeneratePlanCall(current_task.user_request)

\* C19: execute_plan called in any state but REVIEWING is ignored. The
\* orchestrator state is unchanged, nothing is emitted, and the runner's
\* execute() is not called: no thread is started, the runner's state, its
\* callback and its buffer stay as they are and nothing is raised.
C19_ExecutePlanIgnoredElsewhere ==
    [][ (out'.call = "execute_plan" /\ ostate # "reviewing") =>
          /\ UNCHANGED <<ostate, current_task, state, process, thread, events,
                         output_callback, ex, rlog>>
          /\ out'.notes = <<>>
          /\ last' = "ok"
      ]_vars

\* C19 witness: execute_plan has been called in IDLE on a task that still has
\* its plan, after the review was cancelled, and no run exists
C19_Witness ==
    /\ out.call = "execute_plan"
    /\ ostate = "idle"
    /\ current_task.plan = "plan"
    /\ thread = 0

\* C16: for a response json.loads rejects, plain text such as "do it",
\* generate_plan returns a plan of type plan with exactly one step, whose
\* description is the raw text, and with no warnings.
C16_FallbackPlanDescribesText ==
    (pure.pc \in {"planned", "built"} /\ ~pure.response.parses) =>
        /\ pure.plan.type = "plan"
        /\ pure.plan.warnings = <<>>
        /\ pure.plan.has_steps
        /\ Len(pure.plan.steps) = 1
        /\ pure.plan.steps[1].py = "dict"
        /\ pure.plan.steps[1].description = pure.response.text

\* C20: the prompt _build_prompt_from_plan returns for a plan is the plan's
\* step descriptions in plan order joined by newline, and it is the task's
\* request when the plan has no steps. The description of a fallback step is
\* its text; a step with an empty or no description has none to join, and a
\* plan whose steps have none counts as one without steps.
C20_PromptJoinsDescriptions ==
    pure.pc = "built" =>
        LET steps == IF pure.plan.has_steps THEN pure.plan.steps ELSE <<>>
            all == [i \in DOMAIN steps |->
                      IF steps[i].py = "str" THEN steps[i].text
                      ELSE steps[i].description]
            nonempty(d) == d # ""
            descriptions == SelectSeq(all, nonempty)
        IN  pure.prompt = IF descriptions = <<>> THEN Returned(pure.request)
                          ELSE Returned(NewlineJoin(descriptions))

\* C21: Orchestrator.cancel(), from whatever state, sets the state to IDLE
\* and emits the system message of cancellation, entering the runner's
\* cancel() only if the state was RUNNING; and when it returns the
\* orchestrator state is IDLE, whatever the process has done meanwhile.
C21_CancelReturnsIdle ==
    [][ /\ out'.call = "cancel" =>
              /\ (out'.arg = "runner") <=> (ostate = "running")
              /\ out'.arg # "runner" =>
                    UNCHANGED <<state, process, procs, caller, creq>>
        /\ out'.call = "cancel_returned" =>
              /\ out'.notes = <<Msg("operation cancelled", "system")>>
              /\ ostate' = "idle"
      ]_vars

C23_ProviderErrorCaught ==
    [][ /\ (out'.call = "plan_returned" /\ out'.arg = "raise") =>
              /\ ostate' = "error"
              /\ out'.notes = <<Msg("plan error: " \o ProviderError, "system")>>
              /\ UNCHANGED <<history, last, caller>>
              /\ ocall' = "none"
        /\ (out'.call = "summarized" /\ out'.arg = "raise") =>
              /\ ostate' = "error"
              /\ out'.notes = <<Msg("summary error: " \o ProviderError, "system")>>
              /\ UNCHANGED <<history, last, state>>
              /\ \E r \in Runs :
                    \/ ex[r].pc = "summarize" /\ ex'[r].pc = "finally"
                    \/ \E s \in Streams :
                          rd[r][s] = "summarize" /\ rd'[r][s] = "done"
      ]_vars

\* C23 witness: summarize_result has raised on a completed run, the state is
\* ERROR, the history is empty and the run's thread is at its finally clause
C23_Witness ==
    /\ out.call = "summarized" /\ out.arg = "raise"
    /\ ostate = "error"
    /\ history = <<>>
    /\ state = "completed"
    /\ \E r \in Runs : ex[r].pc = "finally"

\* C24: after any sequence of add_history_entry calls the stored history
\* holds at most 100 entries, and they are the most recently added ones, in
\* the order in which they were added: the entries of the last 100 calls
\* whose write went through, the oldest having been dropped.
C24_HistoryKeepsLatestHundred ==
    pure.pc = "store" =>
        LET n == Len(pure.written)
            kept == IF n < HistoryCap THEN n ELSE HistoryCap
        IN  /\ Len(history) <= HistoryCap
            /\ Len(history) = kept
            /\ \A i \in 1..kept : history[i] = NthEntry(pure.written[n - kept + i])

\* C24 witness: more than 100 entries have been written and the oldest are
\* gone from the full history
C24_Witness ==
    /\ pure.pc = "store"
    /\ Len(pure.written) > HistoryCap
    /\ Len(history) = HistoryCap
    /\ history[1].task_id > 1

C26_SlowConsumerDoesNotStall ==
    \A r \in Runs, s \in Streams :
        (rd[r][s] = "callback" /\ TotalLines < MaxBacklog)
            => ENABLED ReadLineCall(r, s)


\* C27: every run emits exactly one command event, before its process is
\* spawned. Once a run's thread is past line 106 the run's first event is
\* its command event and no later event of the run is one; until then the
\* run has emitted nothing and no process of the run exists; this holds for
\* a run whose Popen raised as well.
C27_OneCommandEventFirst ==
    \A r \in Runs :
        /\ ex[r].pc \in {"none", "emit_command"} =>
              /\ rlog[r] = <<>>
              /\ procs[r].status = "none"
        /\ ex[r].pc \notin {"none", "emit_command"} =>
              /\ rlog[r] # <<>>
              /\ \A i \in DOMAIN rlog[r] :
                    rlog[r][i].ev.type = "command" <=> i = 1

\* a run whose Popen raised has finished: a command event, then the error
C27_Witness ==
    \E r \in Runs :
        /\ Done(r)
        /\ SpawnFailed(r)
        /\ procs[r].status = "none"
        /\ Len(rlog[r]) = 2
        /\ rlog[r][1].ev.type = "command"
        /\ rlog[r][2].ev.type = "error"


\* C28: cancel() asks the process to terminate first and force-kills only
\* afterwards, and only a process that has not exited by the end of the grace
\* period. Every step that kills a process is the kill() of a cancel() that is
\* past its terminate() and its sleep, and the process it kills is alive at
\* that moment and has been sent the termination request before; a process
\* that has exited is not signalled any more.
C28_TerminateBeforeKill ==
    [][ \A p \in Runs :
          /\ (procs'[p].code = -SIGKILL /\ procs[p].code # -SIGKILL) =>
                /\ caller = "c_kill"
                /\ caller' = "idle"
                /\ procs[p].status = "alive"
                /\ procs[p].term
          /\ procs[p].status = "exited" => procs'[p] = procs[p]
      ]_vars


\* C29: get_events() returns only events of the most recent run. Whenever it
\* is called, every event of the copy it returns was emitted by a thread of
\* the run the latest accepted execute() started; after that execute() has
\* reset the buffer no event of an earlier run's threads is in it.
C29_SnapshotOfLatestRunOnly ==
    \A i \in DOMAIN get_events : get_events[i].run = thread


\* C30: the sink forwards every event and handles the end of each run exactly
\* once. In a step in which a thread of run r emits an event while the sink
\* is the runner's callback, the sink is entered with that event; it goes on
\* to _on_execution_finished if and only if the event is the run's terminal
\* status or error event, and only if no execution result has been stored for
\* that run before.
C30_FinishedHandledOncePerRun ==
    [][ \A r \in Runs :
          (Len(rlog'[r]) = Len(rlog[r]) + 1 /\ output_callback = "sink") =>
              LET ev == rlog'[r][Len(rlog'[r])].ev
              IN  /\ out'.call = "sink"
                  /\ out'.arg = ev.type
                  /\ Finishes(ev) <=> (ev.text \in TerminalTexts /\ current_task # NoTask)
                  /\ Finishes(ev) => rres[r] = NoResult
      ]_vars


\* C31: the execution result assembled when a run finishes. In a step in
\* which the sink goes on to _on_execution_finished, the result stored on the
\* task has the runner's state, exit_code 0 exactly when that state is
\* COMPLETED and -1 otherwise, stdout and stderr the newline-joins of the
\* buffered stdout and stderr payloads in buffer order, an events list that
\* mirrors the buffer entry by entry, and the run's terminal event is among
\* them.
C31_ResultMirrorsBuffer ==
    [][ \A r \in Runs :
          ( /\ Len(rlog'[r]) = Len(rlog[r]) + 1
            /\ Finishes(rlog'[r][Len(rlog'[r])].ev) ) =>
              LET res == current_task'.execution_result
              IN  /\ res.state = state
                  /\ res.exit_code = (IF state = "completed" THEN 0 ELSE -1)
                  /\ res.stdout = NewlineJoin(Payloads(events', "stdout"))
                  /\ res.stderr = NewlineJoin(Payloads(events', "stderr"))
                  /\ Len(res.events) = Len(events')
                  /\ \A i \in DOMAIN events' :
                        /\ res.events[i].type = events'[i].type
                        /\ res.events[i].data = Data(events'[i])
                  /\ \E i \in DOMAIN events' :
                        /\ events'[i].run = r
                        /\ events'[i].text \in TerminalTexts
      ]_vars


\* C32: an orchestrator that is not busy (IDLE, COMPLETED or ERROR) changes
\* its state only inside start_task or cancel. In particular no event of the
\* runner's threads moves it away from the IDLE that cancel() has set.
C32_IdleUntilStartTask ==
    [][ (~is_busy /\ ostate' # ostate) =>
            out'.call \in {"start_task", "cancel", "cancel_transition"}
      ]_vars


\* C33: cancel() destroys the cancelled task. When cancel() returns the
\* orchestrator holds no current task, and while the orchestrator is IDLE no
\* step other than start_task writes a task, an execution result or a
\* summary.
C33_CancelDestroysTask ==
    [][ /\ out'.call = "cancel_returned" => current_task' = NoTask
        /\ (ostate = "idle" /\ out'.call # "start_task") =>
              current_task' \in {current_task, NoTask}
      ]_vars


\* C34: plan generation that returns leaves PLANNING. Whatever the provider
\* gave (a plan, a clarification, a dict of neither type, an error), the
\* step in which _generate_plan returns ends in REVIEWING, CLARIFYING or
\* ERROR.
C34_PlanningAlwaysLeft ==
    [][ out'.call = "plan_returned" =>
            ostate' \in {"reviewing", "clarifying", "error"}
      ]_vars


\* C35: the fallback plan is executed as it stands. A call of execute_plan in
\* REVIEWING on the fallback plan built around unparsable text takes the
\* orchestrator to RUNNING, starts a run of the runner and raises nothing.
C35_FallbackPlanExecutes ==
    [][ ( /\ out'.call = "execute_plan"
          /\ ostate = "reviewing"
          /\ current_task.plan = "steps_text" ) =>
            /\ last' # "execute_plan_raised"
            /\ ostate' = "running"
            /\ state' = "running"
            /\ thread' # thread
      ]_vars


\* C36: in REVIEWING the current task's plan is of type plan, in CLARIFYING
\* it is of type clarify, and in every busy state there is a current task.
C36_StateMatchesPlan ==
    /\ ostate = "reviewing" => PlanType(current_task.plan) = "plan"
    /\ ostate = "clarifying" => PlanType(current_task.plan) = "clarify"
    /\ is_busy => current_task # NoTask

\* C36 witness: the provider asked, the user answered, and the plan that
\* came back is under review
C36_Witness ==
    /\ ostate = "reviewing"
    /\ current_task.plan = "plan"
    /\ Len(current_task.user_request) = 2


\* C37: state and process handle describe the most recent run. A step of the
\* execution thread of a run that is not the latest one neither writes a
\* terminal state nor clears the process handle while the process of a later
\* run is alive.
C37_EarlierRunLeavesRunnerAlone ==
    [][ \A r \in Runs :
          ( /\ ex'[r] # ex[r]
            /\ r < thread
            /\ \E p \in Runs : p > r /\ procs[p].status = "alive" ) =>
              /\ (state' # state => state' \notin TerminalStates)
              /\ (process' # process => process' # NoProc)
      ]_vars


\* C38: a task is finished only by the terminal event of its own run. In a
\* step in which the sink goes on to _on_execution_finished, and so moves
\* the orchestrator to SUMMARIZING or ERROR and stores an execution result
\* on the current task, the event was emitted by a thread of the run that
\* execute_plan started for that task.
C38_FinishedByOwnRunOnly ==
    [][ \A r \in Runs :
          ( /\ Len(rlog'[r]) = Len(rlog[r]) + 1
            /\ Finishes(rlog'[r][Len(rlog'[r])].ev) ) =>
              rtask[r] = current_task.task_id
      ]_vars


\* C39: once the execution thread of the latest run has finished, the runner
\* state is COMPLETED, FAILED or CANCELLED, and it stays so until the next
\* execute(): no cancel() racing with the end of the run leaves it
\* CANCELLING.
C39_TerminalAfterThreadEnds ==
    (thread # 0 /\ Done(thread)) => state \in TerminalStates


\* C40: execute_plan never finds the runner RUNNING. A call of execute_plan
\* that gets as far as the runner's execute() finds the runner in another
\* state than RUNNING, so it does not end with the runner's "already
\* executing" error, and it leaves the orchestrator in RUNNING with a run
\* started for the current task.
C40_ExecutePlanFindsRunnerFree ==
    [][ ( /\ out'.call = "execute_plan"
          /\ ostate' = "running" /\ ostate # "running"
          /\ last' # "execute_plan_raised" ) =>
            /\ state # "running"
            /\ last' # "execute_raised"
            /\ thread' = thread + 1
            /\ rtask'[thread'] = current_task.task_id
            /\ state' = "running"
      ]_vars

====
